---------------------------- MODULE Spec2Model ----------------------------
(***************************************************************************)
(* Founder lookup pipeline: the name normalizer (clean_founder_string,     *)
(* clean_founder_data), the founder resolver (get_founders_for_company)    *)
(* and the batch driver (process_companies).                               *)
(*                                                                         *)
(* Text is a sequence of one-character strings, so that strip, lower,      *)
(* substring tests, re.sub, split and join are computed character by       *)
(* character as the Python code computes them.                             *)
(***************************************************************************)
EXTENDS Naturals, Integers, Sequences, FiniteSets, TLC

-----------------------------------------------------------------------------
(* Python str / re primitives used by the source *)

WhiteSpace == {" ", "\t", "\n"}

IsSpace(c) == c \in WhiteSpace

\* the least element of a set of positions: the leftmost match of a search
MinOf(S) == CHOOSE x \in S : \A y \in S : x <= y

\* the upper-case letters and their lower case
LowerMap ==
  "A" :> "a" @@ "B" :> "b" @@ "C" :> "c" @@ "D" :> "d" @@ "E" :> "e" @@ "F" :> "f"
  @@ "G" :> "g" @@ "H" :> "h" @@ "I" :> "i" @@ "J" :> "j" @@ "K" :> "k" @@ "L" :> "l"
  @@ "M" :> "m" @@ "N" :> "n" @@ "O" :> "o" @@ "P" :> "p" @@ "Q" :> "q" @@ "R" :> "r"
  @@ "S" :> "s" @@ "T" :> "t" @@ "U" :> "u" @@ "V" :> "v" @@ "W" :> "w" @@ "X" :> "x"
  @@ "Y" :> "y" @@ "Z" :> "z"

UpperChars == DOMAIN LowerMap

LowerChar(c) == IF c \in UpperChars THEN LowerMap[c] ELSE c

Lower(s) == SubSeq([i \in 1..Len(s) |-> LowerChar(s[i])], 1, Len(s))

\* first index >= i of t that holds no white space (Len(t) + 1 when none)
RECURSIVE SkipSpace(_, _)
SkipSpace(t, i) ==
  IF i > Len(t) THEN Len(t) + 1
  ELSE IF IsSpace(t[i]) THEN SkipSpace(t, i + 1)
  ELSE i

\* last index <= i of t that holds no white space (0 when none)
RECURSIVE SkipSpaceBack(_, _)
SkipSpaceBack(t, i) ==
  IF i < 1 THEN 0
  ELSE IF IsSpace(t[i]) THEN SkipSpaceBack(t, i - 1)
  ELSE i

\* str.strip()
Strip(s) == SubSeq(s, SkipSpace(s, 1), SkipSpaceBack(s, Len(s)))

\* index of the leftmost occurrence of p in t, 0 when there is none
FindFirst(t, p) ==
  IF Len(p) = 0 THEN 1
  ELSE LET hits == {i \in 1..(Len(t) - Len(p) + 1) :
                      t[i] = p[1] /\ SubSeq(t, i, i + Len(p) - 1) = p}
       IN  IF hits = {} THEN 0 ELSE MinOf(hits)

\* the Python test  p in t
Contains(t, p) == FindFirst(t, p) # 0

\* str.replace(old, new), old non-empty
RECURSIVE ReplaceAll(_, _, _)
ReplaceAll(t, old, new) ==
  LET i == FindFirst(t, old)
  IN  IF i = 0 THEN t
      ELSE SubSeq(t, 1, i - 1) \o new \o ReplaceAll(SubSeq(t, i + Len(old), Len(t)), old, new)

\* re.sub(p, "", t, flags=re.IGNORECASE) for a pattern p without metacharacters
RECURSIVE ReSubLiteralIgnoreCase(_, _)
ReSubLiteralIgnoreCase(p, t) ==
  LET i == FindFirst(Lower(t), Lower(p))
  IN  IF i = 0 THEN t
      ELSE SubSeq(t, 1, i - 1) \o ReSubLiteralIgnoreCase(p, SubSeq(t, i + Len(p), Len(t)))

\* end of the match of \s+(?:and|&)\s+ starting at i, 0 when it does not match;
\* with amp false the pattern is \s+and\s+
AndMatchEnd(t, i, amp) ==
  IF i > Len(t) \/ ~IsSpace(t[i]) THEN 0
  ELSE LET j == SkipSpace(t, i)
           m == IF j + 2 <= Len(t) /\ Lower(SubSeq(t, j, j + 2)) = <<"a","n","d">> THEN j + 3
                ELSE IF amp /\ j <= Len(t) /\ t[j] = "&" THEN j + 1
                ELSE 0
       IN  IF m = 0 \/ m > Len(t) \/ ~IsSpace(t[m]) THEN 0
           ELSE SkipSpace(t, m) - 1

\* re.sub(r'\s+(?:and|&)\s+', ", ", t, flags=re.IGNORECASE), or of r'\s+and\s+'
RECURSIVE ReSubAnd(_, _)
ReSubAnd(t, amp) ==
  LET starts == {i \in 1..Len(t) : AndMatchEnd(t, i, amp) # 0}
  IN  IF starts = {} THEN t
      ELSE LET i == MinOf(starts)
               e == AndMatchEnd(t, i, amp)
           IN  SubSeq(t, 1, i - 1) \o <<","," ">> \o ReSubAnd(SubSeq(t, e + 1, Len(t)), amp)

\* index of the ")" closing a match of \(.*?\) that opens at j, 0 when none
ParenClose(t, j) ==
  LET closes == {k \in (j + 1)..Len(t) : t[k] = ")"}
  IN  IF t[j] # "(" \/ closes = {} THEN 0
      ELSE LET k == MinOf(closes)
           IN  IF \E m \in (j + 1)..(k - 1) : t[m] = "\n" THEN 0 ELSE k

\* re.sub(r'\s*\(.*?\)\s*', '', t)
RECURSIVE ReSubParen(_)
ReSubParen(t) ==
  LET opens == {j \in 1..Len(t) : ParenClose(t, j) # 0}
  IN  IF opens = {} THEN t
      ELSE LET j == MinOf(opens)
               k == ParenClose(t, j)
               lead == {i \in 1..j : \A m \in i..(j - 1) : IsSpace(t[m])}
               i == MinOf(lead)
               e == SkipSpace(t, k + 1) - 1
           IN  SubSeq(t, 1, i - 1) \o ReSubParen(SubSeq(t, e + 1, Len(t)))

\* str.split(sep) for a one-character sep
RECURSIVE Split(_, _)
Split(t, sep) ==
  LET cuts == {i \in 1..Len(t) : t[i] = sep}
  IN  IF cuts = {} THEN <<t>>
      ELSE LET i == MinOf(cuts)
           IN  <<SubSeq(t, 1, i - 1)>> \o Split(SubSeq(t, i + 1, Len(t)), sep)

\* len(s.split()): the number of maximal runs of non-space characters
WordCount(s) ==
  Cardinality({i \in 1..Len(s) : ~IsSpace(s[i]) /\ (i = 1 \/ IsSpace(s[i - 1]))})

\* sep.join(parts)
RECURSIVE Join(_, _)
Join(parts, sep) ==
  IF Len(parts) = 0 THEN <<>>
  ELSE IF Len(parts) = 1 THEN parts[1]
  ELSE parts[1] \o sep \o Join(Tail(parts), sep)

\* s.endswith(suffix)
EndsWith(s, suffix) ==
  Len(s) >= Len(suffix) /\ SubSeq(s, Len(s) - Len(suffix) + 1, Len(s)) = suffix

\* s.startswith(prefix)
StartsWith(s, prefix) ==
  Len(s) >= Len(prefix) /\ SubSeq(s, 1, Len(prefix)) = prefix

\* membership test  x in list
InSeq(x, s) == \E i \in 1..Len(s) : s[i] = x

-----------------------------------------------------------------------------
(* company_founder_lookup.py: configuration *)

NOT_FOUND_MARKER == <<"N","o","t"," ","F","o","u","n","d">>

ERROR_MARKERS ==
  << <<"E","r","r","o","r","_","A","P","I","_","C","a","l","l","_","F","a","i","l","e","d">>,
     <<"E","r","r","o","r","_","O","p","e","n","A","I","_","C","l","i","e","n","t","_","N","o","t","_","I","n","i","t","i","a","l","i","z","e","d">>,
     <<"E","r","r","o","r","_","U","n","e","x","p","e","c","t","e","d","_","A","P","I">>,
     <<"F","o","u","n","d","e","r","s","_","N","o","t","_","Y","e","t","_","L","o","o","k","e","d","_","U","p">> >>

\* the substrings of the lower-cased text that mean "not found"
NOT_FOUND_PHRASES ==
  << <<"n","o","t"," ","f","o","u","n","d">>,
     <<"c","o","u","l","d","n","'","t"," ","f","i","n","d">>,
     <<"u","n","a","b","l","e"," ","t","o"," ","f","i","n","d">>,
     <<"n","o"," ","f","o","u","n","d","e","r"," ","i","n","f","o","r","m","a","t","i","o","n">>,
     <<"i"," ","d","o"," ","n","o","t"," ","h","a","v","e"," ","a","c","c","e","s","s"," ","t","o"," ","t","h","a","t"," ","i","n","f","o","r","m","a","t","i","o","n">>,
     <<"i"," ","d","o","n","'","t"," ","h","a","v","e"," ","a","c","c","e","s","s"," ","t","o"," ","t","h","a","t"," ","i","n","f","o","r","m","a","t","i","o","n">>,
     <<"i"," ","c","a","n","n","o","t"," ","p","r","o","v","i","d","e">>,
     <<"i","n","f","o","r","m","a","t","i","o","n"," ","o","n"," ","t","h","e"," ","f","o","u","n","d","e","r","s"," ","i","s"," ","n","o","t"," ","p","u","b","l","i","c","l","y"," ","a","v","a","i","l","a","b","l","e">>,
     <<"d","o","e","s"," ","n","o","t"," ","h","a","v","e"," ","c","l","e","a","r","l","y"," ","d","e","f","i","n","e","d"," ","f","o","u","n","d","e","r","s"," ","i","n"," ","t","h","e"," ","t","r","a","d","i","t","i","o","n","a","l"," ","s","e","n","s","e">> >>

\* the keywords that disqualify a candidate name
STOPLIST ==
  << <<"v","a","r","i","o","u","s">>, <<"a","s","s","o","c","i","a","t","e","s">>, <<"o","t","h","e","r","s">>, <<"g","r","o","u","p"," ","o","f">>, <<"t","e","a","m"," ","o","f">>, <<"l","l","c">>,
     <<"i","n","c">>, <<"c","o",".">>, <<"l","i","m","i","t","e","d">>, <<"c","o","r","p">>, <<"g","m","b","h">> >>

\* the mojibake bullet of line 115, three characters
BULLET == << "U+00E2", "U+20AC", "U+00A2" >>

-----------------------------------------------------------------------------
(* company_founder_lookup.py: clean_founder_string *)

\* IsNotFoundText looking for the phrases in the text as written
IsNotFoundTextCaseSensitive(text) ==
  \/ InSeq(text, ERROR_MARKERS)
  \/ \E i \in 1..Len(NOT_FOUND_PHRASES) : Contains(text, NOT_FOUND_PHRASES[i])
  \/ text = <<"N","/","A">>

\* text in ERROR_MARKERS or a not-found phrase in its lower case or text == "N/A"
IsNotFoundText(text) ==
  \/ InSeq(text, ERROR_MARKERS)
  \/ \E i \in 1..Len(NOT_FOUND_PHRASES) : Contains(Lower(text), NOT_FOUND_PHRASES[i])
  \/ text = <<"N","/","A">>

base_phrases(company_name) ==
  << <<"T","h","e"," ","f","o","u","n","d","e","r","s"," ","o","f"," ">> \o company_name \o <<" ","a","r","e"," ","t","y","p","i","c","a","l","l","y"," ","l","i","s","t","e","d"," ","a","s"," ">>,
     <<"T","h","e"," ","f","o","u","n","d","e","r","s"," ","o","f"," ">> \o company_name \o <<" ","a","r","e"," ">>,
     <<"F","o","u","n","d","e","r","s"," ","o","f"," ">> \o company_name \o <<" ","a","r","e"," ">>,
     company_name \o <<"'","s"," ","f","o","u","n","d","e","r","s"," ","a","r","e"," ">>,
     <<"T","h","e"," ","f","o","u","n","d","e","r","s"," ","o","f"," ","t","h","e"," ","c","o","m","p","a","n","y"," ","'">> \o company_name \o <<"'"," ","a","r","e"," ">>,
     <<"T","h","e"," ","f","o","u","n","d","e","r"," ","o","f"," ">> \o company_name \o <<" ","i","s"," ">>,
     <<"F","o","u","n","d","e","r"," ","o","f"," ">> \o company_name \o <<" ","i","s"," ">>,
     company_name \o <<"'","s"," ","f","o","u","n","d","e","r"," ","i","s"," ">>,
     <<"T","h","e"," ","f","o","u","n","d","e","r"," ","o","f"," ","t","h","e"," ","c","o","m","p","a","n","y"," ","'">> \o company_name \o <<"'"," ","i","s"," ">>,
     <<"T","h","e"," ","f","o","u","n","d","e","r","s"," ","a","r","e"," ","t","y","p","i","c","a","l","l","y"," ","l","i","s","t","e","d"," ","a","s"," ">>,
     <<"T","h","e"," ","f","o","u","n","d","e","r","s"," ","o","f"," ","t","h","i","s"," ","c","o","m","p","a","n","y"," ","a","r","e"," ">>,
     <<"T","h","e"," ","f","o","u","n","d","e","r","s"," ","a","r","e"," ">>,
     <<"F","o","u","n","d","e","r","s"," ","a","r","e"," ">>,
     <<"T","h","e"," ","f","o","u","n","d","e","r"," ","i","s"," ">>,
     <<"F","o","u","n","d","e","r"," ","i","s"," ">>,
     <<"K","e","y"," ","f","i","g","u","r","e","s"," ","a","s","s","o","c","i","a","t","e","d"," ","w","i","t","h"," ","t","h","e"," ","f","o","u","n","d","i","n","g"," ","i","n","c","l","u","d","e"," ">>,
     <<"T","h","e"," ","c","o","m","p","a","n","y"," ","w","a","s"," ","c","o","-","f","o","u","n","d","e","d"," ","b","y"," ">>,
     <<"T","h","e"," ","c","o","m","p","a","n","y"," ","w","a","s"," ","f","o","u","n","d","e","d"," ","b","y"," ">>,
     <<"C","o","-","f","o","u","n","d","e","d"," ","b","y"," ">>,
     <<"F","o","u","n","d","e","d"," ","b","y"," ">> >>

\* phrases.extend([p.replace(old, new) for p in phrases if old in p])
ExtendReplaced(phrases, old, new) ==
  LET sel == SelectSeq(phrases, LAMBDA p : Contains(p, old))
  IN  phrases \o SubSeq([i \in 1..Len(sel) |-> ReplaceAll(sel[i], old, new)], 1, Len(sel))

phrases_to_remove(company_name) ==
  ExtendReplaced(ExtendReplaced(base_phrases(company_name), <<" ","a","r","e">>, <<" ","i","n","c","l","u","d","e">>),
                 <<" ","i","s">>, <<" ","i","n","c","l","u","d","e","s">>)

\* for phrase in phrases_to_remove: text = re.sub(phrase, "", text, IGNORECASE).strip()
\* lines 109-110: for phrase in phrases_to_remove, from the n-th phrase on:
\*   text = re.sub(phrase, "", text, flags=re.IGNORECASE).strip()
\* (an empty text stays empty under every later phrase)
RECURSIVE RemovePhrasesFrom(_, _, _)
RemovePhrasesFrom(phrases, n, text) ==
  IF n > Len(phrases) THEN text
  ELSE LET stripped == Strip(ReSubLiteralIgnoreCase(phrases[n], text))
       IN  IF Len(stripped) = 0 THEN <<>>
           ELSE RemovePhrasesFrom(phrases, n + 1, stripped)

RemovePhrases(phrases, text) == RemovePhrasesFrom(phrases, 1, text)

\* lines 113-115
NormalizeSeparators(text) ==
  ReplaceAll(ReplaceAll(ReSubAnd(text, TRUE), <<";">>, <<",">>), BULLET, <<",">>)

\* line 118
SplitNames(text) ==
  LET parts == Split(text, ",")
      kept  == SelectSeq(parts, LAMBDA p : Len(Strip(p)) > 1)
  IN  SubSeq([i \in 1..Len(kept) |-> Strip(kept[i])], 1, Len(kept))

\* lines 123-125
CleanName(name_part) ==
  LET c == Strip(ReSubParen(name_part))
  IN  IF EndsWith(c, <<".">>) THEN Strip(SubSeq(c, 1, Len(c) - 1)) ELSE c

\* KeepName with "group" in the stoplist where the source has "group of"
KeepNameStopsGroup(cleaned_name, company_name) ==
  /\ cleaned_name # <<>>
  /\ Lower(cleaned_name) # Lower(company_name)
  /\ WordCount(cleaned_name) < 5
  /\ ~ \E i \in 1..Len(STOPLIST) : Contains(Lower(cleaned_name), STOPLIST[i])
  /\ ~ Contains(Lower(cleaned_name), <<"g","r","o","u","p">>)

\* lines 127-129
KeepName(cleaned_name, company_name) ==
  /\ cleaned_name # <<>>
  /\ Lower(cleaned_name) # Lower(company_name)
  /\ WordCount(cleaned_name) < 5
  /\ ~ \E i \in 1..Len(STOPLIST) : Contains(Lower(cleaned_name), STOPLIST[i])

\* UniqueNames without the test  cleaned_name not in seen
RECURSIVE UniqueNamesNoSeen(_, _, _, _)
UniqueNamesNoSeen(names, n, company_name, unique_names) ==
  IF n > Len(names) THEN unique_names
  ELSE LET cleaned_name == CleanName(names[n])
       IN  IF KeepName(cleaned_name, company_name)
           THEN UniqueNamesNoSeen(names, n + 1, company_name, Append(unique_names, cleaned_name))
           ELSE UniqueNamesNoSeen(names, n + 1, company_name, unique_names)

\* lines 120-132: the loop that fills unique_names
RECURSIVE UniqueNames(_, _, _, _)
UniqueNames(names, n, company_name, unique_names) ==
  IF n > Len(names) THEN unique_names
  ELSE LET cleaned_name == CleanName(names[n])
       IN  IF KeepName(cleaned_name, company_name) /\ ~InSeq(cleaned_name, unique_names)
           THEN UniqueNames(names, n + 1, company_name, Append(unique_names, cleaned_name))
           ELSE UniqueNames(names, n + 1, company_name, unique_names)

\* the candidates of line 118 for a text that passed the marker checks
CandidateNames(text, company_name) ==
  SplitNames(NormalizeSeparators(RemovePhrases(phrases_to_remove(company_name), Strip(text))))

clean_founder_string(text, company_name) ==
  IF Strip(text) = <<>> THEN NOT_FOUND_MARKER
  ELSE IF IsNotFoundText(Strip(text)) THEN NOT_FOUND_MARKER
  ELSE LET unique_names == UniqueNames(CandidateNames(text, company_name), 1, company_name, <<>>)
       IN  IF unique_names = <<>> THEN NOT_FOUND_MARKER
           ELSE Join(unique_names, <<","," ">>)

-----------------------------------------------------------------------------
(* standardize_founders_csv.py: clean_founder_data *)

\* lines 34-41 after the strip: the markers this script knows
IsNotFoundData(text) ==
  \/ InSeq(text, ERROR_MARKERS)
  \/ Contains(Lower(text), <<"n","o","t"," ","f","o","u","n","d">>)
  \/ Contains(Lower(text), <<"c","o","u","l","d","n","'","t"," ","f","i","n","d">>)
  \/ Contains(Lower(text), <<"u","n","a","b","l","e"," ","t","o"," ","f","i","n","d">>)

data_phrases(company_name) ==
  << <<"T","h","e"," ","f","o","u","n","d","e","r","s"," ","o","f"," ">> \o company_name \o <<" ","a","r","e"," ">>,
     <<"F","o","u","n","d","e","r","s"," ","o","f"," ">> \o company_name \o <<" ","a","r","e"," ">>,
     company_name \o <<"'","s"," ","f","o","u","n","d","e","r","s"," ","a","r","e"," ">>,
     <<"T","h","e"," ","f","o","u","n","d","e","r","s"," ","o","f"," ","t","h","e"," ","c","o","m","p","a","n","y"," ","'">> \o company_name \o <<"'"," ","a","r","e"," ">>,
     <<"T","h","e"," ","f","o","u","n","d","e","r","s"," ","a","r","e"," ">>,
     <<"F","o","u","n","d","e","r","s"," ","a","r","e"," ">>,
     <<"T","h","e"," ","f","o","u","n","d","e","r"," ","o","f"," ">> \o company_name \o <<" ","i","s"," ">>,
     <<"F","o","u","n","d","e","r"," ","o","f"," ">> \o company_name \o <<" ","i","s"," ">>,
     company_name \o <<"'","s"," ","f","o","u","n","d","e","r"," ","i","s"," ">>,
     <<"T","h","e"," ","f","o","u","n","d","e","r"," ","o","f"," ","t","h","e"," ","c","o","m","p","a","n","y"," ","'">> \o company_name \o <<"'"," ","i","s"," ">>,
     <<"T","h","e"," ","f","o","u","n","d","e","r"," ","i","s"," ">>,
     <<"F","o","u","n","d","e","r"," ","i","s"," ">> >>

\* line 68
SplitNamesData(text) ==
  LET parts == Split(text, ",")
      kept  == SelectSeq(parts, LAMBDA p : Len(Strip(p)) > 0)
  IN  SubSeq([i \in 1..Len(kept) |-> Strip(kept[i])], 1, Len(kept))

\* lines 75-79
CleanNameData(name) ==
  LET c0 == Strip(name)
      c1 == IF EndsWith(c0, <<".">>) THEN Strip(SubSeq(c0, 1, Len(c0) - 1)) ELSE c0
  IN  IF EndsWith(c1, <<"'","s">>) THEN Strip(SubSeq(c1, 1, Len(c1) - 2)) ELSE c1

\* lines 83-85
KeepNameData(cleaned_name, company_name) ==
  /\ Len(cleaned_name) > 1
  /\ ~StartsWith(Lower(cleaned_name), <<"t","h","e"," ","c","o","m","p","a","n","y"," ","w","a","s"," ","f","o","u","n","d","e","d"," ","b","y">>)
  /\ ~StartsWith(Lower(cleaned_name), <<"f","o","u","n","d","e","d"," ","b","y">>)
  /\ Lower(cleaned_name) # Lower(company_name)

\* lines 71-87
RECURSIVE UniqueNamesData(_, _, _, _)
UniqueNamesData(names, n, company_name, unique_names) ==
  IF n > Len(names) THEN unique_names
  ELSE LET cleaned_name == CleanNameData(names[n])
       IN  IF /\ cleaned_name # <<>>
              /\ ~InSeq(cleaned_name, unique_names)
              /\ KeepNameData(cleaned_name, company_name)
           THEN UniqueNamesData(names, n + 1, company_name, Append(unique_names, cleaned_name))
           ELSE UniqueNamesData(names, n + 1, company_name, unique_names)

clean_founder_data(raw_founder_text, company_name) ==
  IF Strip(raw_founder_text) = <<>> THEN NOT_FOUND_MARKER
  ELSE IF IsNotFoundData(Strip(raw_founder_text)) THEN NOT_FOUND_MARKER
  ELSE LET text  == ReSubAnd(RemovePhrases(data_phrases(company_name), Strip(raw_founder_text)), FALSE)
           unique_names == UniqueNamesData(SplitNamesData(text), 1, company_name, <<>>)
       IN  IF unique_names = <<>> THEN NOT_FOUND_MARKER
           ELSE Join(unique_names, <<","," ">>)

-----------------------------------------------------------------------------
(* State *)

VARIABLES
  \* the normalizer applied to one text, once and again
  nstage,        \* "input", "once", "twice", "data_once", "data_twice", or "off"
  nraw,          \* the raw text handed to the normalizer
  ncompany,      \* the company name handed to the normalizer
  nout,          \* the result of the first application
  nout2,         \* the result of applying the normalizer to nout
  \* the batch driver
  client,        \* TRUE when the OpenAI client was initialized (lines 34-43)
  inputCols,     \* the header of the input file, as written in the file
  inputRows,     \* the rows of the input file: the value of the company field
  outExists,     \* os.path.exists(OUTPUT_CSV_FILE)
  outDisk,       \* the lines of the output file that reached the disk
  outBuf,        \* the lines written to outfile and not yet flushed
  pc,            \* "idle", "loop", "resolved", "done", "aborted" or "crashed"
  i,             \* the index of the input row the loop is at
  processed_companies_set,
  founders_str,  \* the resolver's result for row i, while pc = "resolved"
  log,           \* the kinds of message logged since the session started
  \* history of the current run
  calls,         \* the resolver's invocations: row, key and result
  lastGather,    \* what the search did in the invocation whose result is pending
  lastOracle,    \* what the oracle did in the invocation whose result is pending
  startExists,   \* outExists when the run started
  startDisk,     \* outDisk when the run started
  readFailed     \* TRUE when reading the existing output raised (line 249)

nvars == <<nstage, nraw, ncompany, nout, nout2>>

bvars == <<client, inputCols, inputRows, outExists, outDisk, outBuf, pc, i,
           processed_companies_set, founders_str, log, calls, lastGather,
           lastOracle, startExists, startDisk, readFailed>>

vars == <<nvars, bvars>>

-----------------------------------------------------------------------------
(* The texts the normalizer is applied to *)

\* the largest number of name fragments in a composed raw text
MaxNames == 2

ACME == <<"A","c","m","e">>

Prefixes == { <<>>, <<"T","h","e"," ","f","o","u","n","d","e","r","s"," ","a","r","e"," ">> }

NameFragments == { <<"B","o","b">>, <<"A"," ","(","x",")">>, <<"a","c","m","e">>, <<"A","l"," ","I","n","c">>, <<"a"," ","b"," ","c"," ","d"," ","e">>, <<"B","o","b",".">> }

Separators == { <<","," ">>, <<" ","a","n","d"," ">>, <<";">> }

\* the texts made of n name fragments joined by separators
RECURSIVE Composed(_)
Composed(n) ==
  IF n = 1 THEN NameFragments
  ELSE { t \o s \o f : t \in Composed(n - 1), s \in Separators, f \in NameFragments }

ComposedInputs ==
  { <<p \o t, ACME>> : p \in Prefixes, t \in UNION { Composed(n) : n \in 1..MaxNames } }

\* the examples of the specification and the marker texts
FixedInputs ==
  { << <<>>, ACME >>,
    << <<" "," ">>, ACME >>,
    << <<"N","o","t"," ","F","o","u","n","d">>, ACME >>,
    << <<"N","/","A">>, ACME >>,
    << <<"N","/","A",".">>, ACME >>,
    << <<"E","r","r","o","r","_","A","P","I","_","C","a","l","l","_","F","a","i","l","e","d">>, ACME >>,
    << <<"E","r","r","o","r","_","O","p","e","n","A","I","_","C","l","i","e","n","t","_","N","o","t","_","I","n","i","t","i","a","l","i","z","e","d">>, ACME >>,
    << <<"E","r","r","o","r","_","U","n","e","x","p","e","c","t","e","d","_","A","P","I">>, ACME >>,
    << <<"F","o","u","n","d","e","r","s","_","N","o","t","_","Y","e","t","_","L","o","o","k","e","d","_","U","p">>, ACME >>,
    << <<"I"," ","c","o","u","l","d","n","'","t"," ","f","i","n","d"," ","t","h","e"," ","f","o","u","n","d","e","r","s">>, ACME >>,
    << <<"F","o","u","n","d","e","r","s",":"," ","N","O","T"," ","F","O","U","N","D",".">>, ACME >>,
    << <<"T","h","e"," ","f","o","u","n","d","e","r","s"," ","a","r","e"," ","A","c","m","e"," ","H","o","l","d","i","n","g","s"," ","G","r","o","u","p",","," ","J","o","h","n"," ","S","m","i","t","h">>, ACME >>,
    << <<"T","h","e"," ","f","o","u","n","d","e","r","s"," ","a","r","e"," ","A","c","m","e",","," ","J","o","h","n"," ","S","m","i","t","h">>, ACME >>,
    << <<"T","h","e"," ","f","o","u","n","d","e","r","s"," ","o","f"," ","A","c","m","e"," ","a","r","e"," ","J","a","n","e"," ","D","o","e"," ","a","n","d"," ","J","o","h","n"," ","S","m","i","t","h",".">>, ACME >>,
    << <<"F","o","u","n","d","e","d"," ","b","y"," ","M","a","r","i","a"," ","A","l","v","a","r","e","z"," ","&"," ","L","e","e"," ","K","i","m",";"," ","l","a","t","e","r"," ","j","o","i","n","e","d"," ","b","y"," ","M","a","r","i","a"," ","A","l","v","a","r","e","z">>, <<"G","l","o","b","e","x">> >> }

\* the company names the marker texts are normalized for
Companies == { ACME, <<"G","l","o","b","e","x">>, <<"B","o","b">> }

UpperChar(c) ==
  IF \E u \in UpperChars : LowerMap[u] = c
  THEN CHOOSE u \in UpperChars : LowerMap[u] = c
  ELSE c

Upper(s) == SubSeq([k \in 1..Len(s) |-> UpperChar(s[k])], 1, Len(s))

Capitalize(s) == <<UpperChar(s[1])>> \o SubSeq(s, 2, Len(s))

\* empty and white-space texts
BlankTexts == { <<>>, <<" ">>, << " ", "\t", "\n" >> }

\* the error markers, bare and with white space around them
ErrorMarkerTexts ==
  { ERROR_MARKERS[k] : k \in 1..Len(ERROR_MARKERS) }
    \cup { <<" ">> \o ERROR_MARKERS[k] \o <<"\n">> : k \in 1..Len(ERROR_MARKERS) }

\* every not-found phrase in lower case, in upper case and capitalized, alone
\* and with names before and after it
PhraseTexts ==
  { pre \o v \o post :
      pre \in { <<>>, <<"B","o","b",","," ">> },
      post \in { <<>>, <<" ","f","o","r"," ","A","l">> },
      v \in UNION { { NOT_FOUND_PHRASES[k], Upper(NOT_FOUND_PHRASES[k]),
                      Capitalize(NOT_FOUND_PHRASES[k]) } : k \in 1..Len(NOT_FOUND_PHRASES) } }

MarkerInputs ==
  { <<t, c>> : t \in BlankTexts \cup ErrorMarkerTexts \cup PhraseTexts, c \in Companies }

NormInputs == ComposedInputs \cup FixedInputs \cup MarkerInputs

-----------------------------------------------------------------------------
(* The normalizer as a state machine: a text is normalized, and its result *)
(* is normalized again                                                     *)

InitNormVars ==
  \E in \in NormInputs :
    /\ nstage = "input"
    /\ nraw = in[1]
    /\ ncompany = in[2]
    /\ nout = <<>>
    /\ nout2 = <<>>

NormOff ==
  /\ nstage = "off"
  /\ nraw = <<>>
  /\ ncompany = <<>>
  /\ nout = <<>>
  /\ nout2 = <<>>

\* clean_founder_string(raw, company)
Normalize ==
  /\ nstage = "input"
  /\ nstage' = "once"
  /\ nout' = clean_founder_string(nraw, ncompany)
  /\ UNCHANGED <<nraw, ncompany, nout2, bvars>>

\* clean_founder_string(clean_founder_string(raw, company), company)
Renormalize ==
  /\ nstage = "once"
  /\ nstage' = "twice"
  /\ nout2' = clean_founder_string(nout, ncompany)
  /\ UNCHANGED <<nraw, ncompany, nout, bvars>>

\* clean_founder_data(raw, company)
Standardize ==
  /\ nstage = "input"
  /\ nstage' = "data_once"
  /\ nout' = clean_founder_data(nraw, ncompany)
  /\ UNCHANGED <<nraw, ncompany, nout2, bvars>>

\* clean_founder_data(clean_founder_data(raw, company), company)
Restandardize ==
  /\ nstage = "data_once"
  /\ nstage' = "data_twice"
  /\ nout2' = clean_founder_data(nout, ncompany)
  /\ UNCHANGED <<nraw, ncompany, nout, bvars>>

-----------------------------------------------------------------------------
(* company_founder_lookup.py: the resolver *)

COMPANY_NAME_COLUMN == <<"C","o","m","p","a","n","y">>

FOUNDERS_COLUMN == <<"F","o","u","n","d","e","r","s">>

\* what the search request of one invocation can do
GatherOutcomes == {"transport_error", "no_results", "snippets"}

\* the answers the oracle gives when its call succeeds
OracleAnswers == { <<"A","n","n"," ","&"," ","B","o","b",".">>, <<"N","o","t"," ","F","o","u","n","d">> }

\* what the completion call of one invocation can do: raise openai.APIError,
\* raise another exception, or answer
OracleOutcomes ==
  { [kind |-> "api_error", text |-> <<>>], [kind |-> "unexpected_error", text |-> <<>>] }
    \cup { [kind |-> "answered", text |-> a] : a \in OracleAnswers }

NotCalled == [kind |-> "not_called", text |-> <<>>]

SNIPPETS == <<"T","i","t","l","e",":"," ","t">>

\* lines 139-174: the text blob, empty on a failure or when nothing was found
search_duckduckgo_for_snippets(gather) ==
  IF gather = "snippets" THEN SNIPPETS ELSE <<>>

\* lines 176-210
get_founders_via_openai_with_context(has_client, oracle) ==
  IF ~has_client THEN NOT_FOUND_MARKER
  ELSE IF oracle.kind = "api_error" THEN ERROR_MARKERS[1]
  ELSE IF oracle.kind = "unexpected_error" THEN ERROR_MARKERS[3]
  ELSE Strip(oracle.text)

\* get_founders_for_company answering with an error marker when there is no client
get_founders_for_company_marks_no_client(company_name, has_client, gather, oracle) ==
  IF ~has_client THEN ERROR_MARKERS[2]
  ELSE IF search_duckduckgo_for_snippets(gather) # <<>>
  THEN clean_founder_string(get_founders_via_openai_with_context(has_client, oracle), company_name)
  ELSE NOT_FOUND_MARKER

\* lines 212-231
get_founders_for_company(company_name, has_client, gather, oracle) ==
  LET search_snippets == search_duckduckgo_for_snippets(gather)
  IN  IF search_snippets # <<>> /\ has_client
      THEN LET api_response_from_snippets == get_founders_via_openai_with_context(has_client, oracle)
               cleaned_founders == clean_founder_string(api_response_from_snippets, company_name)
           IN  IF cleaned_founders # NOT_FOUND_MARKER THEN cleaned_founders
               ELSE NOT_FOUND_MARKER
      ELSE NOT_FOUND_MARKER

\* the oracle is called only at line 219
OracleCalled(has_client, gather) ==
  search_duckduckgo_for_snippets(gather) # <<>> /\ has_client

-----------------------------------------------------------------------------
(* company_founder_lookup.py: process_companies *)

\* [fn.strip() for fn in reader.fieldnames if fn] if reader.fieldnames else []
StripFieldnames(fieldnames) ==
  LET kept == SelectSeq(fieldnames, LAMBDA fn : fn # <<>>)
  IN  SubSeq([n \in 1..Len(kept) |-> Strip(kept[n])], 1, Len(kept))

\* line 266
OutputFieldnames(original_fieldnames) ==
  SelectSeq(original_fieldnames, LAMBDA fn : fn # FOUNDERS_COLUMN) \o <<FOUNDERS_COLUMN>>

HeaderLine(fieldnames) == [kind |-> "header", cols |-> fieldnames]

RowLine(company, founders) == [kind |-> "row", Company |-> company, Founders |-> founders]

DataRows(file) == SelectSeq(file, LAMBDA line : line.kind = "row")

HeaderRows(file) == SelectSeq(file, LAMBDA line : line.kind = "header")

\* the header csv.DictReader finds in a file: its first line
FileFieldnames(file) ==
  IF file = <<>> THEN <<>>
  ELSE IF file[1].kind = "header" THEN file[1].cols
  ELSE <<file[1].Company, file[1].Founders>>

\* lines 243-247: the keys of the rows of the existing output file
KeysOfFile(file) ==
  IF InSeq(COMPANY_NAME_COLUMN, StripFieldnames(FileFieldnames(file)))
  THEN { Strip(file[n].Company) : n \in { m \in 2..Len(file) : file[m].kind = "row" /\ file[m].Company # <<>> } }
  ELSE {}

\* line 256: the mode the output file is opened in
OpenMode(output_file_exists, processed) ==
  IF output_file_exists /\ processed # {} THEN "a" ELSE "w"

\* WritesHeader writing the header whenever the file is opened
WritesHeaderAlways(output_file_exists, tell, processed) == TRUE

\* line 270: whether the header is written; tell is outfile.tell()
WritesHeader(output_file_exists, tell, processed) ==
  ~output_file_exists \/ (tell = 0 /\ processed = {})

\* SkipsRow without the test against processed_companies_set
SkipsRowOnlyEmpty(company_name_original, processed) ==
  company_name_original = <<>>

\* lines 280-287: the row is passed over
SkipsRow(company_name_original, processed) ==
  \/ company_name_original = <<>>
  \/ Strip(company_name_original) \in processed

\* lines 311-319 and 234-274: the session starts, the existing output is read,
\* both files are opened, the input header is checked and the header written
StartRun ==
  /\ pc \in {"idle", "done", "aborted", "crashed"}
  /\ \E fails \in (IF outExists THEN BOOLEAN ELSE {FALSE}) :
       LET output_file_exists == outExists /\ ~fails
           processed == IF output_file_exists THEN KeysOfFile(outDisk) ELSE {}
           mode == OpenMode(output_file_exists, processed)
           opened == IF mode = "w" THEN <<>> ELSE outDisk
           tell == Len(opened)
           original_fieldnames == StripFieldnames(inputCols)
           missing == ~InSeq(COMPANY_NAME_COLUMN, original_fieldnames)
           header == WritesHeader(output_file_exists, tell, processed)
           session == (IF client THEN {} ELSE {"warning_no_client"})
                        \cup (IF outExists /\ ~fails THEN {"found_in_output"} ELSE {})
                        \cup (IF fails THEN {"error_reading_output"} ELSE {})
       IN  /\ readFailed' = fails
           /\ startExists' = outExists
           /\ startDisk' = outDisk
           /\ processed_companies_set' = processed
           /\ outExists' = TRUE
           /\ outDisk' = opened
           /\ IF missing
              THEN /\ pc' = "aborted"
                   /\ outBuf' = <<>>
                   /\ log' = session \cup {"error_column_not_found"}
              ELSE /\ pc' = "loop"
                   /\ outBuf' = IF header THEN <<HeaderLine(OutputFieldnames(original_fieldnames))>>
                                ELSE <<>>
                   /\ log' = session \cup (IF header THEN {"header_written"} ELSE {})
  /\ i' = 1
  /\ founders_str' = <<>>
  /\ calls' = <<>>
  /\ lastGather' = "none"
  /\ lastOracle' = "none"
  /\ UNCHANGED <<client, inputCols, inputRows, nvars>>

\* SkipRow ending the loop at a row without a company name
SkipRowEndsRun ==
  /\ pc = "loop"
  /\ i <= Len(inputRows)
  /\ SkipsRow(inputRows[i], processed_companies_set)
  /\ i' = IF inputRows[i] = <<>> THEN Len(inputRows) + 1 ELSE i + 1
  /\ log' = log \cup (IF inputRows[i] = <<>> THEN {"skipping_row"} ELSE {})
  /\ UNCHANGED <<client, inputCols, inputRows, outExists, outDisk, outBuf, pc,
                 processed_companies_set, founders_str, calls, lastGather,
                 lastOracle, startExists, startDisk, readFailed, nvars>>

\* lines 276-287: a row without a company name, or one already in the output
SkipRow ==
  /\ pc = "loop"
  /\ i <= Len(inputRows)
  /\ SkipsRow(inputRows[i], processed_companies_set)
  /\ i' = i + 1
  /\ log' = log \cup (IF inputRows[i] = <<>> THEN {"skipping_row"} ELSE {})
  /\ UNCHANGED <<client, inputCols, inputRows, outExists, outDisk, outBuf, pc,
                 processed_companies_set, founders_str, calls, lastGather,
                 lastOracle, startExists, startDisk, readFailed, nvars>>

\* lines 169-174 and 205-210: what the except clauses of one invocation log
FailureLog(gather, oracle) ==
  (IF gather = "transport_error" THEN {"error_scraping"} ELSE {})
    \cup (IF oracle.kind \in {"api_error", "unexpected_error"} THEN {"error_openai"} ELSE {})

\* Resolve letting the exception of a failed search or completion call reach
\* the except clause of process_companies, which ends the run
ResolveRaising ==
  /\ pc = "loop"
  /\ i <= Len(inputRows)
  /\ ~SkipsRow(inputRows[i], processed_companies_set)
  /\ \E gather \in GatherOutcomes :
       \E oracle \in (IF OracleCalled(client, gather) THEN OracleOutcomes ELSE {NotCalled}) :
         \E company_name_cleaned \in {Strip(inputRows[i])} :
         \E result \in {get_founders_for_company(company_name_cleaned, client, gather, oracle)} :
             /\ log' = log \cup {"processing_new_company"}
                           \cup (IF client THEN {} ELSE {"client_not_available"})
                           \cup FailureLog(gather, oracle)
             /\ IF FailureLog(gather, oracle) # {}
                THEN /\ pc' = "done"
                     /\ outDisk' = outDisk \o outBuf
                     /\ outBuf' = <<>>
                     /\ UNCHANGED <<founders_str, calls, lastGather, lastOracle>>
                ELSE /\ pc' = "resolved"
                     /\ founders_str' = result
                     /\ calls' = Append(calls, [row |-> i, key |-> company_name_cleaned, founders |-> result])
                     /\ lastGather' = gather
                     /\ lastOracle' = oracle.kind
                     /\ UNCHANGED <<outDisk, outBuf>>
  /\ UNCHANGED <<client, inputCols, inputRows, outExists, i,
                 processed_companies_set, startExists, startDisk, readFailed, nvars>>

\* lines 284-292: the resolver is invoked for the row
Resolve ==
  /\ pc = "loop"
  /\ i <= Len(inputRows)
  /\ ~SkipsRow(inputRows[i], processed_companies_set)
  /\ \E gather \in GatherOutcomes :
       \E oracle \in (IF OracleCalled(client, gather) THEN OracleOutcomes ELSE {NotCalled}) :
         \E company_name_cleaned \in {Strip(inputRows[i])} :
         \E result \in {get_founders_for_company(company_name_cleaned, client, gather, oracle)} :
             /\ founders_str' = result
             /\ calls' = Append(calls, [row |-> i, key |-> company_name_cleaned, founders |-> result])
             /\ lastGather' = gather
             /\ lastOracle' = oracle.kind
             /\ log' = log \cup {"processing_new_company"}
                           \cup (IF client THEN {} ELSE {"client_not_available"})
                           \cup FailureLog(gather, oracle)
  /\ pc' = "resolved"
  /\ UNCHANGED <<client, inputCols, inputRows, outExists, outDisk, outBuf, i,
                 processed_companies_set, startExists, startDisk, readFailed, nvars>>

\* WriteRow without the flush of line 299
WriteRowNoFlush ==
  /\ pc = "resolved"
  /\ outBuf' = outBuf \o <<RowLine(inputRows[i], founders_str)>>
  /\ i' = i + 1
  /\ pc' = "loop"
  /\ founders_str' = <<>>
  /\ lastGather' = "none"
  /\ lastOracle' = "none"
  /\ UNCHANGED <<client, inputCols, inputRows, outExists, outDisk, processed_companies_set,
                 log, calls, startExists, startDisk, readFailed, nvars>>

\* lines 294-299: the row is written and the file flushed
WriteRow ==
  /\ pc = "resolved"
  /\ outDisk' = outDisk \o outBuf \o <<RowLine(inputRows[i], founders_str)>>
  /\ outBuf' = <<>>
  /\ i' = i + 1
  /\ pc' = "loop"
  /\ founders_str' = <<>>
  /\ lastGather' = "none"
  /\ lastOracle' = "none"
  /\ UNCHANGED <<client, inputCols, inputRows, outExists, processed_companies_set,
                 log, calls, startExists, startDisk, readFailed, nvars>>

\* line 301: the loop is over, the files are closed
Finish ==
  /\ pc = "loop"
  /\ i > Len(inputRows)
  /\ outDisk' = outDisk \o outBuf
  /\ outBuf' = <<>>
  /\ pc' = "done"
  /\ log' = log \cup {"finished"}
  /\ UNCHANGED <<client, inputCols, inputRows, outExists, i, processed_companies_set,
                 founders_str, calls, lastGather, lastOracle, startExists,
                 startDisk, readFailed, nvars>>

\* the process is killed in the loop: what was not flushed and what the process
\* held in memory are lost
Crash ==
  /\ pc \in {"loop", "resolved"}
  /\ outBuf' = <<>>
  /\ pc' = "crashed"
  /\ i' = 1
  /\ processed_companies_set' = {}
  /\ founders_str' = <<>>
  /\ lastGather' = "none"
  /\ lastOracle' = "none"
  /\ UNCHANGED <<client, inputCols, inputRows, outExists, outDisk, log, calls,
                 startExists, startDisk, readFailed, nvars>>

-----------------------------------------------------------------------------
(* The files the batch driver starts from *)

\* the largest number of rows of the input file
MaxRows == 2

CompanyValues == { <<"A","c","m","e">>, <<" ","A","c","m","e">>, <<>>, <<"B","e","t","a">> }

RECURSIVE RowsOfLength(_)
RowsOfLength(n) ==
  IF n = 0 THEN { <<>> }
  ELSE { Append(r, c) : r \in RowsOfLength(n - 1), c \in CompanyValues }

InputRowSets == UNION { RowsOfLength(n) : n \in 0..MaxRows }

\* headers with the company column, and one without it
InputHeaders ==
  { << <<"C","o","m","p","a","n","y">>, <<"V","a","l","u","a","t","i","o","n">> >>,
    << <<" ","C","o","m","p","a","n","y"," ">>, <<"F","o","u","n","d","e","r","s">>, <<"V","a","l","u","a","t","i","o","n">> >>,
    << <<"N","a","m","e">>, <<"V","a","l","u","a","t","i","o","n">> >> }

\* an output file left by an earlier session over another input: none, or one
\* that holds a header and no row
InitialOutputs == { <<>>, << HeaderLine(<< <<"C","o","m","p","a","n","y">>, <<"F","o","u","n","d","e","r","s">> >>) >> }

InitBatch ==
  /\ client \in BOOLEAN
  /\ inputCols \in InputHeaders
  /\ inputRows \in InputRowSets
  /\ \E out \in InitialOutputs :
       /\ outExists = (out # <<>>)
       /\ outDisk = out
  /\ outBuf = <<>>
  /\ pc = "idle"
  /\ i = 1
  /\ processed_companies_set = {}
  /\ founders_str = <<>>
  /\ log = {}
  /\ calls = <<>>
  /\ lastGather = "none"
  /\ lastOracle = "none"
  /\ startExists = FALSE
  /\ startDisk = <<>>
  /\ readFailed = FALSE

BatchOff ==
  /\ client = FALSE
  /\ inputCols = <<>>
  /\ inputRows = <<>>
  /\ outExists = FALSE
  /\ outDisk = <<>>
  /\ outBuf = <<>>
  /\ pc = "off"
  /\ i = 1
  /\ processed_companies_set = {}
  /\ founders_str = <<>>
  /\ log = {}
  /\ calls = <<>>
  /\ lastGather = "none"
  /\ lastOracle = "none"
  /\ startExists = FALSE
  /\ startDisk = <<>>
  /\ readFailed = FALSE

-----------------------------------------------------------------------------
(* Specifications *)

Init == InitBatch /\ NormOff

Next ==
  \/ StartRun
  \/ SkipRow
  \/ Resolve
  \/ WriteRow
  \/ Finish
  \/ Crash

Spec == Init /\ [][Next]_vars

InitNorm == InitNormVars /\ BatchOff

NextNorm ==
  \/ Normalize
  \/ Renormalize
  \/ Standardize
  \/ Restandardize

SpecNorm == InitNorm /\ [][NextNorm]_vars

-----------------------------------------------------------------------------
(* Properties of the batch driver, checked under Spec *)

IsPrefix(a, b) == Len(a) <= Len(b) /\ SubSeq(b, 1, Len(a)) = a

\* the keys of the rows the output file held when the run started
StartKeys == KeysOfFile(startDisk)

\* the rows of the output file the run found and kept when it opened the file
KeptRows ==
  IF startExists /\ ~readFailed /\ StartKeys # {} THEN DataRows(startDisk) ELSE <<>>

\* the row the n-th invocation of the resolver leads to
CallRow(n) == RowLine(inputRows[calls[n].row], calls[n].founders)

ResumeHolds ==
  /\ \A n \in 1..Len(calls) : calls[n].key \notin StartKeys
  /\ IsPrefix(DataRows(startDisk), DataRows(outDisk))
  /\ \A n \in (Len(DataRows(startDisk)) + 1)..Len(DataRows(outDisk)) :
       Strip(DataRows(outDisk)[n].Company) \notin StartKeys

C2_OncePerKey ==
  \A a, b \in 1..Len(calls) : a # b => calls[a].key # calls[b].key

\* C3: when the oracle call fails, the value the row is written with is the
\* error marker of the failure.
C3_ErrorMarkerPersisted ==
  pc = "resolved" =>
    /\ lastOracle = "api_error" => founders_str = ERROR_MARKERS[1]
    /\ lastOracle = "unexpected_error" => founders_str = ERROR_MARKERS[3]

C8_IncrementalOutput ==
  pc # "idle" =>
    /\ \A n \in 1..Len(outBuf) : outBuf[n].kind = "header"
    /\ \A a, b \in 1..Len(calls) : a < b => calls[a].row < calls[b].row
    /\ \E m \in { Len(calls) - 1, Len(calls) } :
         /\ m >= 0
         /\ pc \in {"loop", "done", "aborted"} => m = Len(calls)
         /\ pc = "resolved" => m = Len(calls) - 1
         /\ DataRows(outDisk) = KeptRows \o SubSeq([n \in 1..m |-> CallRow(n)], 1, m)

\* a crash with the second resolution in flight: the first row is on the disk
C8_Witness ==
  /\ pc = "crashed"
  /\ Len(calls) = 2
  /\ DataRows(outDisk) = KeptRows \o <<CallRow(1)>>

\* the header the output file is to have: the input columns without a
\* Founders column, then the Founders column
ExpectedHeader ==
  LET cols == StripFieldnames(inputCols)
  IN  HeaderLine(SelectSeq(cols, LAMBDA c : c # <<"F","o","u","n","d","e","r","s">>) \o << <<"F","o","u","n","d","e","r","s">> >>)

\* C9: the output file never holds a second header or a header after a row, and
\* after a run that finished it holds exactly one header, the expected one, as
\* its first line.
C9_OneHeader ==
  LET file == outDisk \o outBuf
  IN  /\ Len(HeaderRows(file)) <= 1
      /\ HeaderRows(file) # <<>> => file[1].kind = "header"
      /\ pc = "done" =>
           /\ outDisk # <<>>
           /\ outDisk[1] = ExpectedHeader
           /\ Len(HeaderRows(outDisk)) = 1

\* a finished run that appended rows to a file that held rows
C9_Witness ==
  /\ pc = "done"
  /\ ~readFailed
  /\ StartKeys # {}
  /\ Len(calls) > 0
  /\ Len(DataRows(outDisk)) > Len(DataRows(startDisk))

\* C10: a run whose input lacks the company column logs an error, invokes the
\* resolver for no row and leaves the output file as it was: not created, not
\* truncated, nothing written.
C10_AbortLeavesOutput ==
  pc = "aborted" =>
    /\ "error_column_not_found" \in log
    /\ calls = <<>>
    /\ outBuf = <<>>
    /\ outExists = startExists
    /\ outDisk = startDisk

\* the input rows a run resolves: those with a company name whose key the run
\* did not find in the output file
RowsToResolve ==
  { n \in 1..Len(inputRows) :
      inputRows[n] # <<>> /\ Strip(inputRows[n]) \notin processed_companies_set }

\* a search or a completion call of the run failed
FailureLogged == "error_scraping" \in log \/ "error_openai" \in log

\* C11: no failure of the search or of the completion call ends the run: the
\* resolver still returns a string, the not-found sentinel, which is written as
\* the row of the company, the run never aborts after a failure, and a run that
\* reaches its end has resolved and written every row it had to, the rows after
\* the failed one included.
C11_FailuresContained ==
  /\ (pc = "resolved" /\ (lastGather = "transport_error"
                           \/ lastOracle \in {"api_error", "unexpected_error"}))
       => /\ founders_str = NOT_FOUND_MARKER
          /\ calls[Len(calls)].row = i
          /\ calls[Len(calls)].founders = founders_str
  /\ pc = "aborted" => ~FailureLogged
  /\ pc = "done" =>
       /\ { calls[n].row : n \in 1..Len(calls) } = RowsToResolve
       /\ DataRows(outDisk)
            = KeptRows \o SubSeq([n \in 1..Len(calls) |-> CallRow(n)], 1, Len(calls))

\* a finished run of two resolutions in which the search failed for one row and
\* the completion call for the other: both rows are in the output file
C11_Witness ==
  /\ pc = "done"
  /\ "error_scraping" \in log
  /\ "error_openai" \in log
  /\ Len(calls) = 2
  /\ \A n \in 1..2 : calls[n].founders = NOT_FOUND_MARKER
  /\ Len(DataRows(outDisk)) = Len(KeptRows) + 2

\* the rows the loop has gone past
RowsPassed == IF pc = "done" THEN 1..Len(inputRows) ELSE 1..(i - 1)

\* C12: the resolver is never invoked for a row with an empty company name, the
\* skip is logged and does not abort the run, and every row the loop has gone
\* past, the rows after an empty one included, that has a company name not yet
\* in the output was resolved and written.
C12_EmptyNameSkipped ==
  /\ \A n \in 1..Len(calls) : inputRows[calls[n].row] # <<>>
  /\ \A n \in 1..Len(DataRows(outBuf)) : DataRows(outBuf)[n].Company # <<>>
  /\ pc = "aborted" => "skipping_row" \notin log
  /\ pc \in {"loop", "done"} =>
       /\ "skipping_row" \in log <=> \E n \in RowsPassed : inputRows[n] = <<>>
       /\ pc = "done" => i = Len(inputRows) + 1
       /\ \A n \in RowsPassed \cap RowsToResolve :
            \E m \in 1..Len(calls) :
              /\ calls[m].row = n
              /\ DataRows(outDisk)[Len(KeptRows) + m] = RowLine(inputRows[n], calls[m].founders)

\* a finished run whose first row had no company name: the row was skipped,
\* the second row was resolved and written
C12_Witness ==
  /\ pc = "done"
  /\ Len(inputRows) = 2
  /\ inputRows[1] = <<>>
  /\ "skipping_row" \in log
  /\ Len(calls) = 1
  /\ calls[1].row = 2
  /\ DataRows(outDisk) = KeptRows \o <<CallRow(1)>>

-----------------------------------------------------------------------------
(* Properties of the normalizer, checked under SpecNorm *)

\* C5: normalizing the result of a normalization gives the same result.
C5_Idempotent ==
  nstage \in {"twice", "data_twice"} => nout2 = nout

\* the names of a result: its parts between the ", " separators
ResultNames(result) ==
  LET parts == Split(result, ",")
  IN  SubSeq([n \in 1..Len(parts) |->
                IF n = 1 \/ parts[n] = <<>> \/ parts[n][1] # " " THEN parts[n]
                ELSE Tail(parts[n])], 1, Len(parts))

FirstIndex(x, s) == MinOf({ n \in 1..Len(s) : s[n] = x })

\* the candidates of the text in input order, each after its cleanup
CleanedCandidates(text, company_name) ==
  LET cands == CandidateNames(text, company_name)
  IN  SubSeq([n \in 1..Len(cands) |-> CleanName(cands[n])], 1, Len(cands))

\* C6: a result other than the not-found sentinel is the ", " join of names
\* that are non-empty, differ from the company name whatever the case, have
\* fewer than 5 words, hold no stoplist substring, occur once each and stand in
\* the order of their first occurrence among the candidates of the input.
C6_NamesWellFormed ==
  (nstage \in {"once", "twice"} /\ nout # NOT_FOUND_MARKER) =>
    LET names == ResultNames(nout)
        cands == CleanedCandidates(nraw, ncompany)
    IN  /\ Join(names, <<","," ">>) = nout
        /\ \A n \in 1..Len(names) :
             /\ names[n] # <<>>
             /\ Lower(names[n]) # Lower(ncompany)
             /\ WordCount(names[n]) < 5
             /\ \A k \in 1..Len(STOPLIST) : ~Contains(Lower(names[n]), STOPLIST[k])
             /\ InSeq(names[n], cands)
        /\ \A a, b \in 1..Len(names) :
             a < b => /\ names[a] # names[b]
                      /\ FirstIndex(names[a], cands) < FirstIndex(names[b], cands)

\* a result of two names from an input of which a candidate was dropped
C6_Witness ==
  /\ nstage = "once"
  /\ nout # NOT_FOUND_MARKER
  /\ Len(ResultNames(nout)) = 2
  /\ Len(CleanedCandidates(nraw, ncompany)) > 2

C7_RAW == <<"T","h","e"," ","f","o","u","n","d","e","r","s"," ","a","r","e"," ","A","c","m","e"," ","H","o","l","d","i","n","g","s"," ","G","r","o","u","p",","," ","J","o","h","n"," ","S","m","i","t","h">>

\* C7 as claimed: the example returns "John Smith".
C7_ExampleAsClaimed ==
  (nstage = "once" /\ nraw = C7_RAW /\ ncompany = ACME) => nout = <<"J","o","h","n"," ","S","m","i","t","h">>

\* C7, amended: the example returns "Acme Holdings Group, John Smith", the
\* stoplist holding "group of" and not "group"; a candidate equal to the
\* company name is discarded.
C7_ExampleAmended ==
  /\ (nstage = "once" /\ nraw = C7_RAW /\ ncompany = ACME)
        => nout = <<"A","c","m","e"," ","H","o","l","d","i","n","g","s"," ","G","r","o","u","p",","," ","J","o","h","n"," ","S","m","i","t","h">>
  /\ (nstage = "once" /\ nraw = <<"T","h","e"," ","f","o","u","n","d","e","r","s"," ","a","r","e"," ","A","c","m","e",","," ","J","o","h","n"," ","S","m","i","t","h">> /\ ncompany = ACME)
        => nout = <<"J","o","h","n"," ","S","m","i","t","h">>

\* the example was normalized
C7_Witness ==
  nstage = "once" /\ nraw = C7_RAW /\ ncompany = ACME


\* the text holds only white space
IsBlank(t) == \A k \in 1..Len(t) : t[k] \in {" ", "\t", "\n"}

\* the text is one of the error markers
IsErrorMarker(t) == \E k \in 1..Len(ERROR_MARKERS) : t = ERROR_MARKERS[k]

\* the text holds the phrase, whatever the case of its letters
HoldsPhrase(t, phrase) ==
  \E k \in 1..(Len(t) - Len(phrase) + 1) :
    \A j \in 1..Len(phrase) : LowerChar(t[k + j - 1]) = phrase[j]

\* the not-found phrases of clean_founder_data
DATA_NOT_FOUND_PHRASES == << <<"n","o","t"," ","f","o","u","n","d">>, <<"c","o","u","l","d","n","'","t"," ","f","i","n","d">>, <<"u","n","a","b","l","e"," ","t","o"," ","f","i","n","d">> >>

=============================================================================
